---- MODULE Spec2Model ----
(***************************************************************************)
(* Model of the two LLM adapters of the web crawler backend               *)
(* (backend/services/llm_filter.py, backend/services/llm_extractor.py)    *)
(* and of the pagination traversal that consumes the extractor's result.  *)
(***************************************************************************)
EXTENDS Integers, Sequences, FiniteSets, TLC

\* ------------------------------------------------------------------------
\* Bounds of the model
\* ------------------------------------------------------------------------
NumUrls == 2          \* distinct URLs 1..NumUrls
MaxCands == 2         \* longest candidate list handed to the filter
MaxResp == 2          \* longest JSON list the classifier answers with
MaxNameLen == 2       \* longest company name, in characters
MaxCompanies == 2     \* longest companies list in one extraction answer
MaxDepth == 3         \* largest max_depth of a traversal

NoUrl == 0            \* r.get("url") is falsy: key missing, None or ""

Urls == 1..NumUrls

RECURSIVE SeqsUpTo(_, _)
SeqsUpTo(S, n) ==
    IF n = 0 THEN {<< >>}
    ELSE LET shorter == SeqsUpTo(S, n - 1)
         IN shorter \cup {Append(s, x) : s \in {t \in shorter : Len(t) = n - 1}, x \in S}

\* ------------------------------------------------------------------------
\* JSON values as json.loads produces them.  An entry of a JSON list is a
\* record [t, v]: t is the Python type of the decoded value, v its value as
\* an integer where it has one (bool is a subclass of int: True == 1).
\* ------------------------------------------------------------------------
IntEntries == {[t |-> "int", v |-> i] : i \in (0 - 1)..MaxCands}
BoolEntries == {[t |-> "bool", v |-> 0], [t |-> "bool", v |-> 1]}
OtherEntries == {[t |-> "str", v |-> 0], [t |-> "float", v |-> 0],
                 [t |-> "null", v |-> 0], [t |-> "list", v |-> 0]}
Entries == IntEntries \cup BoolEntries \cup OtherEntries

\* message.content of an answer is a record [kind, json]:
\*   kind = "none" : content is None
\*   kind = "text" : a string that is not JSON
\*   kind = "json" : a JSON document, json is the value it decodes to
NoJson == [type |-> "none", items |-> << >>]
NoContent == [kind |-> "none", json |-> NoJson]
TextContent == [kind |-> "text", json |-> NoJson]

NonListTypes == {"dict", "number", "string", "null"}
ListContents ==
    {[kind |-> "json", json |-> [type |-> "list", items |-> s]] : s \in SeqsUpTo(Entries, MaxResp)}
NonListContents ==
    {[kind |-> "json", json |-> [type |-> k, items |-> << >>]] : k \in NonListTypes}
FilterContents == ListContents \cup NonListContents \cup {NoContent, TextContent}

Candidates == {[url |-> u] : u \in Urls \cup {NoUrl}}
CandidateLists == SeqsUpTo(Candidates, MaxCands)

\* json.loads(content): error is the exception raised, "" when it returns
json_loads(content) ==
    IF content.kind = "none" THEN [error |-> "TypeError", value |-> NoJson]
    ELSE IF content.kind = "text" THEN [error |-> "JSONDecodeError", value |-> NoJson]
    ELSE [error |-> "", value |-> content.json]

\* isinstance(idx, int): in Python bool is a subclass of int
isinstance_int(idx) == idx.t \in {"int", "bool"}

\* [r.get("url") for r in results if r.get("url")]
RECURSIVE AllUrls(_)
AllUrls(rs) ==
    IF rs = << >> THEN << >>
    ELSE IF Head(rs).url # NoUrl THEN << Head(rs).url >> \o AllUrls(Tail(rs))
         ELSE AllUrls(Tail(rs))

\* ValidUrls with the lower bound of the range check left out: Python then
\* reads a negative index from the end of the list
RECURSIVE ValidUrls_NegativeIndex(_, _)
ValidUrls_NegativeIndex(indices, rs) ==
    IF indices = << >> THEN << >>
    ELSE LET idx == Head(indices)
             rest == ValidUrls_NegativeIndex(Tail(indices), rs)
             pos == IF idx.v < 0 THEN Len(rs) + idx.v + 1 ELSE idx.v + 1
         IN IF isinstance_int(idx) /\ idx.v < Len(rs)
            THEN IF rs[pos].url # NoUrl
                 THEN << rs[pos].url >> \o rest
                 ELSE rest
            ELSE rest

\* the loop over indices that builds valid_urls
RECURSIVE ValidUrls(_, _)
ValidUrls(indices, rs) ==
    IF indices = << >> THEN << >>
    ELSE LET idx == Head(indices)
             rest == ValidUrls(Tail(indices), rs)
         IN IF isinstance_int(idx) /\ 0 <= idx.v /\ idx.v < Len(rs)
            THEN IF rs[idx.v + 1].url # NoUrl
                 THEN << rs[idx.v + 1].url >> \o rest
                 ELSE rest
            ELSE rest

Returned(v) == [raised |-> FALSE, value |-> v]
Raised == [raised |-> TRUE, value |-> << >>]

\* filter_search_results failing closed: an exception of the call gives []
filter_search_results_FailClosed(rs, env) ==
    IF rs = << >> THEN Returned(<< >>)
    ELSE IF ~env.OpenAI \/ ~env.api_key THEN Returned(AllUrls(rs))
    ELSE IF env.ctor = "raises" THEN Raised
    ELSE IF env.create = "raises" THEN Returned(<< >>)
    ELSE IF env.content.kind = "none" THEN Returned(<< >>)
    ELSE LET indices == json_loads(env.content)
         IN IF indices.error # "" THEN Returned(AllUrls(rs))
            ELSE IF indices.value.type = "list"
                 THEN Returned(ValidUrls(indices.value.items, rs))
                 ELSE Returned(AllUrls(rs))

\* filter_search_results with the isinstance(indices, list) test left out: a
\* JSON value that is not a list is walked as a list without entries
filter_search_results_NoListCheck(rs, env) ==
    IF rs = << >> THEN Returned(<< >>)
    ELSE IF ~env.OpenAI \/ ~env.api_key THEN Returned(AllUrls(rs))
    ELSE IF env.ctor = "raises" THEN Raised
    ELSE IF env.create = "raises" THEN Returned(AllUrls(rs))
    ELSE IF env.content.kind = "none" THEN Returned(AllUrls(rs))
    ELSE LET indices == json_loads(env.content)
         IN IF indices.error # "" THEN Returned(AllUrls(rs))
            ELSE Returned(ValidUrls(indices.value.items, rs))

\* env: [OpenAI, api_key : BOOLEAN, ctor, create : {"ok", "raises"}, content]
\*   OpenAI  : the import of the client library succeeded
\*   api_key : OPENAI_API_KEY is set and not empty
\*   ctor    : outcome of OpenAI(api_key=api_key)
\*   create  : outcome of client.chat.completions.create(...)
\*   content : response.choices[0].message.content
filter_search_results(rs, env) ==
    IF rs = << >> THEN Returned(<< >>)
    ELSE IF ~env.OpenAI \/ ~env.api_key THEN Returned(AllUrls(rs))
    ELSE IF env.ctor = "raises" THEN Raised
    ELSE IF env.create = "raises" THEN Returned(AllUrls(rs))
    ELSE IF env.content.kind = "none" THEN Returned(AllUrls(rs))
    ELSE LET indices == json_loads(env.content)
         IN IF indices.error # "" THEN Returned(AllUrls(rs))
            ELSE IF indices.value.type = "list"
                 THEN Returned(ValidUrls(indices.value.items, rs))
                 ELSE Returned(AllUrls(rs))

\* The environments of one call.  A step that is not reached has no
\* outcome, so it is fixed to one value there.
FilterEnvsOver(contents) ==
    {[OpenAI |-> o, api_key |-> k, ctor |-> "ok", create |-> "ok", content |-> NoContent] :
        o \in BOOLEAN, k \in BOOLEAN}
    \cup {[OpenAI |-> TRUE, api_key |-> TRUE, ctor |-> "raises", create |-> "ok", content |-> NoContent],
          [OpenAI |-> TRUE, api_key |-> TRUE, ctor |-> "ok", create |-> "raises", content |-> NoContent]}
    \cup {[OpenAI |-> TRUE, api_key |-> TRUE, ctor |-> "ok", create |-> "ok", content |-> c] :
        c \in contents}
FilterEnvs == FilterEnvsOver(FilterContents)
IdleFilterEnv ==
    [OpenAI |-> FALSE, api_key |-> FALSE, ctor |-> "ok", create |-> "ok", content |-> NoContent]

\* ------------------------------------------------------------------------
\* The extraction answer: a JSON object whose fields may be missing or of
\* another type than the prompt asks for.  A field is a record whose t is
\* "absent" (key missing), "null", or the Python type of the value.
\* ------------------------------------------------------------------------
Chars == {" ", "a"}
NameValues ==
    {[t |-> "absent", s |-> << >>], [t |-> "null", s |-> << >>]}
    \cup {[t |-> "str", s |-> x] : x \in SeqsUpTo(Chars, MaxNameLen)}
CompanyRecords == {[name |-> n] : n \in NameValues}
CompaniesFields ==
    {[t |-> k, items |-> << >>] : k \in {"absent", "null", "str"}}
    \cup {[t |-> "list", items |-> cs] : cs \in SeqsUpTo(CompanyRecords, MaxCompanies)}
UrlFields ==
    {[t |-> k, v |-> NoUrl] : k \in {"absent", "null", "int"}}
    \cup {[t |-> "str", v |-> u] : u \in Urls \cup {NoUrl}}
SelectorFields == {[t |-> k] : k \in {"absent", "null", "str", "int"}}

ExtractionObjects(CF, UF, SF) ==
    {[type |-> "dict", companies |-> c, next_page_url |-> n, pagination_selector |-> p] :
        c \in CF, n \in UF, p \in SF}
ExtractContentsOver(CF, UF, SF) ==
    {NoContent, TextContent}
    \cup {[kind |-> "json", json |-> o] : o \in ExtractionObjects(CF, UF, SF)}
ExtractContents == ExtractContentsOver(CompaniesFields, UrlFields, SelectorFields)

\* {"companies": [], "next_page_url": None, "pagination_selector": None}
DefaultExtraction ==
    [type |-> "dict",
     companies |-> [t |-> "list", items |-> << >>],
     next_page_url |-> [t |-> "null", v |-> NoUrl],
     pagination_selector |-> [t |-> "null"]]

\* placeholder for the value of a call that raised
NoExtraction ==
    [type |-> "none",
     companies |-> [t |-> "absent", items |-> << >>],
     next_page_url |-> [t |-> "absent", v |-> NoUrl],
     pagination_selector |-> [t |-> "absent"]]
ExtractRaised == [raised |-> TRUE, value |-> NoExtraction]

\* extract_data_with_llm whose except branch returns an empty dict instead of
\* the three default entries
extract_data_with_llm_EmptyOnError(env) ==
    IF ~env.api_key THEN Returned(DefaultExtraction)
    ELSE IF env.ctor = "raises" \/ env.prep = "raises" THEN ExtractRaised
    ELSE IF env.create = "raises" THEN Returned(NoExtraction)
    ELSE LET result == json_loads(env.content)
         IN IF result.error # "" THEN Returned(NoExtraction)
            ELSE Returned(result.value)

\* env: [api_key : BOOLEAN, ctor, prep, create : {"ok", "raises"}, content]
\*   api_key : OPENAI_API_KEY is set and not empty
\*   ctor    : outcome of OpenAI(api_key=api_key)
\*   prep    : outcome of extract_interactive_elements(html_content) and of
\*             building user_prompt
\*   create  : outcome of client.chat.completions.create(...)
\*   content : response.choices[0].message.content
extract_data_with_llm(env) ==
    IF ~env.api_key THEN Returned(DefaultExtraction)
    ELSE IF env.ctor = "raises" THEN ExtractRaised
    ELSE IF env.prep = "raises" THEN ExtractRaised
    ELSE IF env.create = "raises" THEN Returned(DefaultExtraction)
    ELSE LET result == json_loads(env.content)
         IN IF result.error # "" THEN Returned(DefaultExtraction)
            ELSE Returned(result.value)

ExtractEnv(k, c, p, r, content) ==
    [api_key |-> k, ctor |-> c, prep |-> p, create |-> r, content |-> content]
\* the environments in which the call returns
ReturningExtractEnvsOver(contents) ==
    {ExtractEnv(FALSE, "ok", "ok", "ok", NoContent),
     ExtractEnv(TRUE, "ok", "ok", "raises", NoContent)}
    \cup {ExtractEnv(TRUE, "ok", "ok", "ok", c) : c \in contents}
ExtractEnvsOver(contents) ==
    ReturningExtractEnvsOver(contents)
    \cup {ExtractEnv(TRUE, "raises", "ok", "ok", NoContent),
          ExtractEnv(TRUE, "ok", "raises", "ok", NoContent)}
ExtractEnvs == ExtractEnvsOver(ExtractContents)
IdleExtractEnv == ExtractEnv(FALSE, "ok", "ok", "ok", NoContent)

\* ------------------------------------------------------------------------
\* State
\* ------------------------------------------------------------------------
VARIABLES
    results, fenv, fstate, fret,      \* one call of filter_search_results
    eenv, estate, eret,               \* one call of extract_data_with_llm
    seed_url, max_depth,              \* one traversal: its arguments,
    current_url, visited, depth,      \*   its PaginationCursor,
    status, companies_found,          \*   its CrawlStatus,
    fetched, pages                    \*   the URLs fetched and the answers got

filterVars == << results, fenv, fstate, fret >>
extractVars == << eenv, estate, eret >>
traverseVars == << seed_url, max_depth, current_url, visited, depth,
                   status, companies_found, fetched, pages >>
vars == << filterVars, extractVars, traverseVars >>

NoFilterCall ==
    /\ results = << >>
    /\ fenv = IdleFilterEnv
    /\ fstate = "idle"
    /\ fret = Returned(<< >>)

NoExtractCall ==
    /\ eenv = IdleExtractEnv
    /\ estate = "idle"
    /\ eret = Returned(DefaultExtraction)

NoTraversal ==
    /\ seed_url = NoUrl
    /\ max_depth = 0
    /\ current_url = NoUrl
    /\ visited = {}
    /\ depth = 0
    /\ status = "idle"
    /\ companies_found = 0
    /\ fetched = << >>
    /\ pages = << >>

\* ------------------------------------------------------------------------
\* filter_search_results
\* ------------------------------------------------------------------------
InitFilter ==
    /\ results \in CandidateLists
    /\ fenv \in FilterEnvs
    /\ fstate = "called"
    /\ fret = Returned(<< >>)
    /\ NoExtractCall
    /\ NoTraversal

FilterCall ==
    /\ fstate = "called"
    /\ fstate' = "done"
    /\ fret' = filter_search_results(results, fenv)
    /\ UNCHANGED << results, fenv, extractVars, traverseVars >>

NextFilter == FilterCall

SpecFilter == InitFilter /\ [][NextFilter]_vars

\* ------------------------------------------------------------------------
\* extract_data_with_llm
\* ------------------------------------------------------------------------
InitExtract ==
    /\ eenv \in ExtractEnvs
    /\ estate = "called"
    /\ eret = Returned(DefaultExtraction)
    /\ NoFilterCall
    /\ NoTraversal

ExtractCall ==
    /\ estate = "called"
    /\ estate' = "done"
    /\ eret' = extract_data_with_llm(eenv)
    /\ UNCHANGED << eenv, filterVars, traverseVars >>

NextExtract == ExtractCall

SpecExtract == InitExtract /\ [][NextExtract]_vars

\* ------------------------------------------------------------------------
\* Both adapters, each called once, over the answers that fail
\* ------------------------------------------------------------------------
AdapterFilterEnvs == FilterEnvsOver(NonListContents \cup {NoContent, TextContent})
AdapterExtractEnvs == ExtractEnvsOver({NoContent, TextContent})

InitAdapters ==
    /\ results \in CandidateLists
    /\ fenv \in AdapterFilterEnvs
    /\ fstate = "called"
    /\ fret = Returned(<< >>)
    /\ eenv \in AdapterExtractEnvs
    /\ estate = "called"
    /\ eret = Returned(DefaultExtraction)
    /\ NoTraversal

NextAdapters == FilterCall \/ ExtractCall

SpecAdapters == InitAdapters /\ [][NextAdapters]_vars

\* ------------------------------------------------------------------------
\* Pagination traversal of one seed (spec.md section 4.2), calling
\* extract_data_with_llm once per fetched page
\* ------------------------------------------------------------------------
TraverseCompaniesFields ==
    {[t |-> "list", items |-> cs] :
        cs \in SeqsUpTo({[name |-> [t |-> "str", s |-> << "a" >>]]}, MaxCompanies)}
TraverseSelectorFields == {[t |-> "null"], [t |-> "str"]}
TraverseEnvs ==
    ReturningExtractEnvsOver(
        ExtractContentsOver(TraverseCompaniesFields, UrlFields, TraverseSelectorFields))

\* the call could not use the extraction capability: no API key, the
\* request raised, or the answer is missing or not JSON
ExtractionFailed(env) ==
    \/ ~env.api_key
    \/ env.create = "raises"
    \/ env.content.kind \in {"none", "text"}

\* the loop of the traversal without its depth limit
LoopCondition_NoDepthLimit(cur, vis, d, maxd) ==
    cur # NoUrl /\ cur \notin vis

\* "Loop while current_url is non-empty, current_url not in visited, and
\* depth < max_depth"
LoopCondition(cur, vis, d, maxd) ==
    cur # NoUrl /\ cur \notin vis /\ d < maxd

\* step 2e: follow next_page_url if it is a URL distinct from all visited
\* URLs, otherwise stop
NextUrl(extraction, vis) ==
    LET hint == extraction.next_page_url
    IN IF hint.t = "str" /\ hint.v \in Urls /\ hint.v \notin vis
       THEN hint.v
       ELSE NoUrl

InitTraverse ==
    /\ seed_url \in Urls
    /\ max_depth \in 1..MaxDepth
    /\ current_url = seed_url
    /\ visited = {}
    /\ depth = 0
    /\ status = "crawling"
    /\ companies_found = 0
    /\ fetched = << >>
    /\ pages = << >>
    /\ NoFilterCall
    /\ NoExtractCall

\* steps 2a, 2b: the page is marked visited and its fetch fails
TraverseFetchFails ==
    /\ status = "crawling"
    /\ LoopCondition(current_url, visited, depth, max_depth)
    /\ visited' = visited \cup {current_url}
    /\ depth' = depth + 1
    /\ fetched' = Append(fetched, current_url)
    /\ status' = "failed"
    /\ UNCHANGED << seed_url, max_depth, current_url, companies_found, pages >>
    /\ UNCHANGED << filterVars, extractVars >>

\* steps 2a to 2e: the page is marked visited, fetched and extracted
TraversePage ==
    /\ status = "crawling"
    /\ LoopCondition(current_url, visited, depth, max_depth)
    /\ \E env \in TraverseEnvs :
        LET r == extract_data_with_llm(env)
        IN /\ ~r.raised
           /\ visited' = visited \cup {current_url}
           /\ depth' = depth + 1
           /\ fetched' = Append(fetched, current_url)
           /\ companies_found' = companies_found + Len(r.value.companies.items)
           /\ current_url' = NextUrl(r.value, visited')
           /\ pages' = Append(pages, [failed |-> ExtractionFailed(env),
                                      companies |-> Len(r.value.companies.items),
                                      hint |-> r.value.next_page_url])
    /\ UNCHANGED << seed_url, max_depth, status >>
    /\ UNCHANGED << filterVars, extractVars >>

\* step 3: the loop exits without a fetch failure
TraverseFinish ==
    /\ status = "crawling"
    /\ ~LoopCondition(current_url, visited, depth, max_depth)
    /\ status' = "completed"
    /\ UNCHANGED << seed_url, max_depth, current_url, visited, depth,
                    companies_found, fetched, pages >>
    /\ UNCHANGED << filterVars, extractVars >>

NextTraverse == TraverseFetchFails \/ TraversePage \/ TraverseFinish

SpecTraverse == InitTraverse /\ [][NextTraverse]_vars

\* the traversal is a loop of one task: it takes its next step whenever it
\* has one
FairSpecTraverse == SpecTraverse /\ WF_vars(NextTraverse)

\* ------------------------------------------------------------------------
\* Properties of filter_search_results
\* ------------------------------------------------------------------------
FilterDone == fstate = "done"

\* the call reached the classifier's answer
FilterAnswered ==
    /\ results # << >>
    /\ fenv.OpenAI /\ fenv.api_key
    /\ fenv.ctor = "ok" /\ fenv.create = "ok"
    /\ fenv.content.kind # "none"

\* the answer is text that is not JSON, or JSON that is not a list
AnswerIsNotAList ==
    \/ fenv.content.kind = "text"
    \/ (fenv.content.kind = "json" /\ fenv.content.json.type \in NonListTypes)

AnswerIsList == fenv.content.kind = "json" /\ fenv.content.json.type = "list"

\* client library missing, API key missing, or the classification call raises
FilterUnavailable ==
    \/ ~fenv.OpenAI
    \/ ~fenv.api_key
    \/ (fenv.ctor = "ok" /\ fenv.create = "raises")

\* positions of the candidates that have a url, and the k-th of them
UrlPositions(rs) == {i \in 1..Len(rs) : rs[i].url # NoUrl}
KthUrlPosition(rs, k) ==
    CHOOSE i \in UrlPositions(rs) : Cardinality({j \in UrlPositions(rs) : j < i}) = k - 1

\* v lists the url of every candidate that has one, in candidate order
IsEveryCandidateUrl(v, rs) ==
    /\ Len(v) = Cardinality(UrlPositions(rs))
    /\ \A k \in 1..Len(v) : v[k] = rs[KthUrlPosition(rs, k)].url

\* v lists one url per candidate, in candidate order
IsOneUrlPerCandidate(v, rs) ==
    /\ Len(v) = Len(rs)
    /\ \A i \in 1..Len(rs) : rs[i].url # NoUrl /\ v[i] = rs[i].url

\* C1 as stated: when the relevance collaborator is unavailable, a non-empty
\* candidate list comes back as one URL per candidate, in candidate order,
\* with no candidate dropped.
C1_Original ==
    (FilterDone /\ results # << >> /\ FilterUnavailable)
        => (~fret.raised /\ IsOneUrlPerCandidate(fret.value, results))

\* C1 amended: when the relevance collaborator is unavailable, a non-empty
\* candidate list comes back as the URL of every candidate that has a
\* non-empty url, in candidate order; only candidates without a url are left out.
C1_FailOpen ==
    (FilterDone /\ results # << >> /\ FilterUnavailable)
        => (~fret.raised /\ IsEveryCandidateUrl(fret.value, results))

C1_Witness ==
    /\ FilterDone
    /\ fenv.ctor = "ok" /\ fenv.create = "raises"
    /\ Len(results) = 2
    /\ results[1].url = NoUrl /\ results[2].url # NoUrl
    /\ fret = Returned(<< results[2].url >>)

\* an entry the claims call a valid index: an integer in [0, len(candidates))
IsIntInRange(e, rs) == e.t = "int" /\ 0 <= e.v /\ e.v < Len(rs)

\* an entry the code uses as an index: bool passes isinstance(idx, int)
IsAccepted(e, rs) == e.t \in {"int", "bool"} /\ 0 <= e.v /\ e.v < Len(rs)

\* C4 as stated: an answer that is not JSON, is JSON but not a list, or is a
\* list with no valid index, makes the filter return all candidate URLs.
C4_Original ==
    (FilterDone /\ FilterAnswered
        /\ \/ AnswerIsNotAList
           \/ /\ AnswerIsList
              /\ \A i \in 1..Len(fenv.content.json.items) :
                    ~IsIntInRange(fenv.content.json.items[i], results))
        => (~fret.raised /\ IsEveryCandidateUrl(fret.value, results))

\* C4 amended: an answer that is not JSON, or is JSON but not a list, makes
\* the filter return all candidate URLs; a JSON list in which no entry is
\* accepted as an index makes it return the empty list.
C4_FailOpenOnNonList ==
    /\ (FilterDone /\ FilterAnswered
            /\ AnswerIsNotAList)
        => (~fret.raised /\ IsEveryCandidateUrl(fret.value, results))
    /\ (FilterDone /\ FilterAnswered
            /\ AnswerIsList
            /\ \A i \in 1..Len(fenv.content.json.items) :
                    ~IsAccepted(fenv.content.json.items[i], results))
        => fret = Returned(<< >>)

C4_Witness ==
    /\ FilterDone /\ FilterAnswered
    /\ fenv.content.json.type = "dict"
    /\ Len(results) = 2
    /\ results[1].url # NoUrl /\ results[2].url # NoUrl
    /\ fret = Returned(<< results[1].url, results[2].url >>)

\* the URLs the integer entries in range select, in response order
RECURSIVE SelectedByIntegers(_, _)
SelectedByIntegers(items, rs) ==
    IF items = << >> THEN << >>
    ELSE LET e == Head(items)
             picked == IF IsIntInRange(e, rs) /\ rs[e.v + 1].url # NoUrl
                       THEN << rs[e.v + 1].url >> ELSE << >>
         IN picked \o SelectedByIntegers(Tail(items), rs)

\* C5: when the answer is a JSON list, the result is exactly the URLs of the
\* candidates at the entries that are integers in [0, len(candidates)), in
\* response order; entries out of range or of another type (string, float,
\* null, boolean, nested) select nothing.
C5_IndexValidation ==
    (FilterDone /\ FilterAnswered /\ AnswerIsList)
        => fret = Returned(SelectedByIntegers(fenv.content.json.items, results))

DistinctUrls(rs) ==
    \A i, j \in 1..Len(rs) :
        (i # j /\ rs[i].url # NoUrl /\ rs[j].url # NoUrl) => rs[i].url # rs[j].url

NoDuplicates(v) == \A i, j \in 1..Len(v) : i # j => v[i] # v[j]

\* the answer is a list in which two entries are accepted as the same index
SelectsTwice ==
    /\ FilterAnswered
    /\ AnswerIsList
    /\ \E p, q \in 1..Len(fenv.content.json.items) :
          /\ p # q
          /\ IsAccepted(fenv.content.json.items[p], results)
          /\ IsAccepted(fenv.content.json.items[q], results)
          /\ fenv.content.json.items[p].v = fenv.content.json.items[q].v

\* C10 as stated: candidates with pairwise distinct URLs never give a result
\* that contains a URL more than once, whatever the classifier answers.
C10_Original ==
    (FilterDone /\ DistinctUrls(results)) => NoDuplicates(fret.value)

\* C10 amended: with pairwise distinct candidate URLs the result contains a
\* URL more than once only when the classifier's list selects the same index
\* more than once (true and false count as 1 and 0); the URL then appears
\* once per selection.
C10_DuplicatesOnlyFromRepeatedIndex ==
    (FilterDone /\ DistinctUrls(results))
        => /\ ~SelectsTwice => NoDuplicates(fret.value)
           /\ (FilterAnswered /\ AnswerIsList) =>
                \A u \in Urls :
                    Cardinality({k \in 1..Len(fret.value) : fret.value[k] = u})
                    = Cardinality({p \in 1..Len(fenv.content.json.items) :
                         /\ IsAccepted(fenv.content.json.items[p], results)
                         /\ results[fenv.content.json.items[p].v + 1].url = u})

C10_Witness ==
    /\ FilterDone /\ FilterAnswered
    /\ DistinctUrls(results)
    /\ Len(results) = 2
    /\ AnswerIsList
    /\ fenv.content.json.items = << [t |-> "int", v |-> 1], [t |-> "int", v |-> 1] >>
    /\ results[2].url # NoUrl
    /\ fret = Returned(<< results[2].url, results[2].url >>)

\* ------------------------------------------------------------------------
\* Properties of extract_data_with_llm
\* ------------------------------------------------------------------------
ExtractDone == estate = "done"

\* the extraction capability is unavailable (no API key), the request
\* raises, or the answer cannot be parsed
ExtractUnusable ==
    \/ ~eenv.api_key
    \/ /\ eenv.ctor = "ok" /\ eenv.prep = "ok"
       /\ (eenv.create = "raises" \/ eenv.content.kind \in {"none", "text"})

\* C2: whenever the extraction capability is unavailable (no API key), the
\* call errors, or its output cannot be parsed, extract_data_with_llm returns
\* an empty company list with next_page_url and pagination_selector null.
C2_FailClosed ==
    (ExtractDone /\ ExtractUnusable) => eret = Returned(DefaultExtraction)

C2_Witness ==
    /\ ExtractDone
    /\ eenv.api_key /\ eenv.create = "ok" /\ eenv.content.kind = "text"
    /\ ~eret.raised
    /\ eret.value.companies = [t |-> "list", items |-> << >>]
    /\ eret.value.next_page_url.t = "null"
    /\ eret.value.pagination_selector.t = "null"

\* The seed-level consequence of C2 on the traversal of spec.md 4.2: a seed
\* whose first page was fetched and whose first extraction was unusable ends
\* completed with companies_found = 0 after that one page.
FailClosedSeed ==
    (Len(pages) >= 1 /\ pages[1].failed)
        => /\ status \in {"crawling", "completed"}
           /\ companies_found = 0
           /\ Len(fetched) = 1
           /\ current_url = NoUrl

\* a failure of the collaborator at some step of the call
FilterCollaboratorFailed ==
    /\ fenv.OpenAI /\ fenv.api_key
    /\ \/ fenv.ctor = "raises"
       \/ fenv.create = "raises"
       \/ fenv.content.kind \in {"none", "text"}

ExtractCollaboratorFailed ==
    /\ eenv.api_key
    /\ \/ eenv.ctor = "raises"
       \/ eenv.prep = "raises"
       \/ eenv.create = "raises"
       \/ eenv.content.kind \in {"none", "text"}

\* C3: whatever step of a call the collaborator fails at (client
\* construction, preparation, the request, reading or parsing the answer),
\* filter_search_results and extract_data_with_llm return their default value
\* and raise nothing.
C3_NoErrorEscapes ==
    /\ FilterDone => ~fret.raised
    /\ (FilterDone /\ results # << >> /\ FilterCollaboratorFailed)
          => IsEveryCandidateUrl(fret.value, results)
    /\ ExtractDone => ~eret.raised
    /\ (ExtractDone /\ ExtractCollaboratorFailed)
          => eret = Returned(DefaultExtraction)

\* s without its leading and trailing whitespace
RECURSIVE TrimLeft(_)
TrimLeft(s) == IF s # << >> /\ Head(s) = " " THEN TrimLeft(Tail(s)) ELSE s
RECURSIVE TrimRight(_)
TrimRight(s) ==
    IF s # << >> /\ s[Len(s)] = " " THEN TrimRight(SubSeq(s, 1, Len(s) - 1)) ELSE s
Trim(s) == TrimRight(TrimLeft(s))

\* the record has no name: missing, null, or empty after trimming
Nameless(c) == c.name.t \in {"absent", "null"} \/ Trim(c.name.s) = << >>

\* C6: no record whose name is missing, null, or empty after trimming is in
\* the companies list that extract_data_with_llm returns.
C6_NamelessDropped ==
    (ExtractDone /\ ~eret.raised)
        => \A i \in 1..Len(eret.value.companies.items) :
              ~Nameless(eret.value.companies.items[i])

\* C8: on every path the returned value has a companies entry that is a
\* sequence, a next_page_url entry that is a string or null, and a
\* pagination_selector entry that is a string or null.
C8_ResultShape ==
    (ExtractDone /\ ~eret.raised)
        => /\ eret.value.companies.t = "list"
           /\ eret.value.next_page_url.t \in {"str", "null"}
           /\ eret.value.pagination_selector.t \in {"str", "null"}

\* ------------------------------------------------------------------------
\* Properties of the traversal
\* ------------------------------------------------------------------------
NoUrlFetchedTwice ==
    \A i, j \in 1..Len(fetched) : i # j => fetched[i] # fetched[j]

Terminal == status \in {"completed", "failed"}

\* C9: whatever next_page_url hints the extraction returns, the traversal
\* fetches no URL twice, performs at most max_depth fetches, and eventually
\* reaches a terminal status (completed or failed).
C9_CycleTermination ==
    /\ [](NoUrlFetchedTwice /\ Len(fetched) <= max_depth)
    /\ <>Terminal

\* a traversal that ended because the hint pointed back at a visited page
C9_Witness ==
    /\ status = "completed"
    /\ Len(pages) >= 2
    /\ depth < max_depth
    /\ pages[Len(pages)].hint.t = "str"
    /\ pages[Len(pages)].hint.v \in visited
    /\ NoUrlFetchedTwice
====
